---- MODULE Spec2Model ----
(***************************************************************************)
(* sfollow: follow the output of Slurm batch jobs.                         *)
(*                                                                         *)
(* The model is the polling loop of src/sfollow/sfollow.py (sfollow, its   *)
(* helpers and main) with the display state of src/sfollow/terminal.py,    *)
(* running against an environment made of the Slurm controller (the job    *)
(* states squeue reports), the job metadata scontrol prints and the log    *)
(* files the jobs write: specification Spec.  The task-based script        *)
(* src/sfollow.py (watch_jobs and its tail_log tasks under trio) runs      *)
(* against the same environment: specification ScriptSpec.                 *)
(*                                                                         *)
(* Abstractions, all exact for what is observed here:                      *)
(*  - the loop counter i is kept modulo POLL_EVERY (only i % 4 is read);   *)
(*  - the spinner glyph index spinner_i is not kept (it selects the glyph  *)
(*    drawn and nothing else);                                             *)
(*  - a file's content is `bulk` bytes "x" followed by the bytes in `data`;*)
(*  - log is the history of write calls on stdout and stderr, in program   *)
(*    order; a spinner redraw over a spinner (same line, end='\r') and a   *)
(*    write that continues the previous write of the same handle are       *)
(*    folded into the previous entry.                                      *)
(***************************************************************************)
EXTENDS Integers, Sequences, FiniteSets, TLC

\* ---------------------------------------------------------------- bounds
NJobs == 2
\* Writes, requeues and purges the environment makes in one run, in total.
MaxEnvEvents == 2
BulkSize == 512
CountCap == 2

\* ------------------------------------------------------- program constants
TAIL_BYTES == 512
POLL_EVERY == 4

STATES_FINISHED ==
    {"BOOT_FAIL", "CANCELLED", "COMPLETED", "DEADLINE", "FAILED",
     "NODE_FAIL", "OUT_OF_MEMORY", "PREEMPTED", "SPECIAL_EXIT", "TIMEOUT"}
STATES_NOT_STARTED == {"PENDING", "CONFIGURING"}

\* ------------------------------------------------------------ environment
Jobs == 1..NJobs
\* "GONE": the controller no longer knows the job (purged after it ended);
\* squeue prints no line for it.
SlurmStates == {"PENDING", "RUNNING", "COMPLETED", "CANCELLED", "GONE"}


NL == "NL"
BAD == "xFF"
REPL == "U+FFFD"
Bytes == {"x", NL, BAD}

\* A path is <<job, name>>; <<j, "lnk">> is a symbolic link to <<j, "out">>.
Inodes == Jobs \X {"out", "err"}
Inode(path) == IF path[2] = "lnk" THEN <<path[1], "out">> ELSE path

\* What `scontrol show job j` can print, as the parsed dict: JobName always,
\* StdOut and StdErr each present or not, and StdErr naming another file,
\* the same path, or a link to the StdOut file.
InfoConfigs(j) ==
    LET nm == [k \in {"JobName"} |-> "build"]
        o  == [k \in {"StdOut"} |-> <<j, "out">>]
    IN  { nm,
          nm @@ o,
          nm @@ [k \in {"StdErr"} |-> <<j, "err">>],
          nm @@ o @@ [k \in {"StdErr"} |-> <<j, "err">>],
          nm @@ o @@ [k \in {"StdErr"} |-> <<j, "out">>],
          nm @@ o @@ [k \in {"StdErr"} |-> <<j, "lnk">>] }

\* The runs: one without arguments, which follows the most recent job, that
\* job having any of these dicts; and one with every job named on the command
\* line, each with the usual dict (StdOut alone).
Argvs == {<<>>, [k \in 1..NJobs |-> k]}
JobConfigs(args, j) ==
    IF args = <<>> /\ j = NJobs THEN InfoConfigs(j)
    ELSE {c \in InfoConfigs(j) : DOMAIN c = {"JobName", "StdOut"}}

VARIABLES
    \* environment
    slurm,          \* job -> state held by the controller
    requeues,       \* times a job went back from RUNNING to PENDING
    info,           \* job -> dict printed by scontrol
    files,          \* inode -> [exists, bulk, data]
    \* program
    argv,           \* the job ids on the command line
    pc,             \* where main()/sfollow() stands
    job_ids,
    states,         \* dict job -> recorded state
    open_files,     \* defaultdict(list) as a sequence of [job, fhs], insertion order
    i,              \* loop counter modulo POLL_EVERY
    todo,           \* items of the dict being iterated that are still to process
    spinner_shown,  \* terminal.spinner_shown
    exit_code,      \* -1 while running
    err,            \* exception that ended the run, "" if none
    tasks,          \* src/sfollow.py: the tail_log tasks of the nursery
    tail_cancels,   \* src/sfollow.py: defaultdict(list) job -> what start() gave
    \* history
    handles,        \* every file object ever opened, by handle id; gen is 0 for
                    \* one opened before the loop, else the number of the
                    \* "started" notice it was opened after
    log,            \* write calls on stdout/stderr
    squeue_calls,   \* status queries issued, saturating at CountCap
    empty_query,    \* a status query was issued with an empty job list
    seen            \* job -> the states squeue reported for it, repeats folded

env_vars == <<slurm, requeues, info, files>>
task_vars == <<tasks, tail_cancels>>
prog_vars == <<argv, pc, job_ids, states, open_files, i, todo, spinner_shown,
               exit_code, err, task_vars>>
hist_vars == <<handles, log, squeue_calls, empty_query, seen>>
vars == <<env_vars, prog_vars, hist_vars>>

\* ------------------------------------------------------------------ files
Size(ino) == files[ino].bulk + Len(files[ino].data)
\* The byte at 0-based offset k.
ByteAt(ino, k) ==
    IF k < files[ino].bulk THEN "x" ELSE files[ino].data[k - files[ino].bulk + 1]
\* bytes.decode('utf-8', 'replace'), one byte at a time
Decode(b) == IF b = BAD THEN REPL ELSE b
\* The decoded text of bytes [lo, hi).
Text(ino, lo, hi) ==
    [k \in 1..(IF hi > lo THEN hi - lo ELSE 0) |-> Decode(ByteAt(ino, lo + k - 1))]
Exists(path) == files[Inode(path)].exists
\* os.path.samefile: same device and inode
samefile(p, q) == Inode(p) = Inode(q)

\* Bytes appended one by one, and bulk writes, over all files.
RECURSIVE Sum(_, _)
Sum(f, S) == IF S = {} THEN 0
             ELSE LET x == CHOOSE x \in S : TRUE IN f[x] + Sum(f, S \ {x})
Appended == Sum([ino \in Inodes |-> Len(files[ino].data)], Inodes)
Bulked == Cardinality({ino \in Inodes : files[ino].bulk > 0})
Purged == Cardinality({j \in Jobs : slurm[j] = "GONE"})
EnvEvents == Appended + Bulked + requeues + Purged

\* The inodes job j writes to.
LogsOf(j) == {Inode(info[j][k]) : k \in DOMAIN info[j] \ {"JobName"}}

\* ------------------------------------------------------- terminal.py, output
Ev(k, j, h, lo, hi, s, c) ==
    [k |-> k, j |-> j, h |-> h, lo |-> lo, hi |-> hi, s |-> s, c |-> c]
Note(k, j, s, c) == Ev(k, j, 0, 0, 0, s, c)
StderrKinds == {"spin", "started", "finished", "following", "traceback"}

\* One write call appended to the history.
Emit(lg, ev) ==
    IF lg # <<>> /\ ev.k = "spin" /\ lg[Len(lg)].k = "spin" THEN lg
    ELSE IF lg # <<>> /\ ev.k = "out" /\ lg[Len(lg)].k = "out"
            /\ lg[Len(lg)].h = ev.h /\ lg[Len(lg)].hi = ev.lo
         THEN [lg EXCEPT ![Len(lg)].hi = ev.hi]
    ELSE Append(lg, ev)

\* The notices of kind k written for job j.
LogCount(lg, k, j) == Cardinality({n \in 1..Len(lg) : lg[n].k = k /\ lg[n].j = j})

fmt_state(state) == IF state = "COMPLETED" THEN "green" ELSE "red"

msg(m, ev) == [m EXCEPT !.log = Emit(@, ev)]

spinner_msg(m) ==
    [m EXCEPT !.log = Emit(@, Note("spin", 0, "", "")), !.spinner_shown = TRUE]

clear_spinner(m) ==
    IF m.spinner_shown
    THEN [m EXCEPT !.log = Emit(@, Note("clear", 0, "", "")),
                   !.spinner_shown = FALSE]
    ELSE m

\* ------------------------------------------------------------- dict helpers
RECURSIVE ItemsFrom(_, _)
ItemsFrom(d, j) ==
    IF j > NJobs THEN <<>>
    ELSE (IF j \in DOMAIN d THEN << <<j, d[j]>> >> ELSE <<>>) \o ItemsFrom(d, j + 1)
\* dict.items(), in the order squeue printed the jobs (ascending id)
Items(d) == ItemsFrom(d, 1)

Range(sq) == {sq[k] : k \in 1..Len(sq)}
HasKey(of, j) == \E k \in 1..Len(of) : of[k].job = j
Get(of, j) ==
    IF HasKey(of, j) THEN of[CHOOSE k \in 1..Len(of) : of[k].job = j].fhs ELSE <<>>
\* open_files[j].append(fh) on a defaultdict(list)
AppendFh(of, j, fh) ==
    IF HasKey(of, j)
    THEN [k \in 1..Len(of) |->
            IF of[k].job = j THEN [of[k] EXCEPT !.fhs = Append(@, fh)] ELSE of[k]]
    ELSE Append(of, [job |-> j, fhs |-> <<fh>>])
\* open_files.get(jid, ()) in place of pop: the entry stays in the dict.
Kept(of, j) == of
Pop(of, j) == SelectSeq(of, LAMBDA e : e.job # j)

\* ------------------------------------------------------------ sfollow.py
\* The dict job_states() builds from the lines squeue prints.
job_states(ids) ==
    [j \in {x \in Range(ids) : slurm[x] # "GONE"} |-> slurm[j]]

\* run(cmd, check=True) raises when squeue exits non-zero.  squeue can fail at
\* any call (ok = FALSE: the controller does not answer), and it does fail
\* when the one job id it is asked for is unknown to the controller ("Invalid
\* job id specified"); among several ids it leaves the unknown ones out.
squeue_raises(ids, ok) ==
    ~ok \/ (Len(ids) = 1 /\ slurm[ids[1]] = "GONE")

\* The dict get_job_info() builds from what scontrol prints.
get_job_info(j) == info[j]

\* The same with the two paths compared as strings.
get_std_streams_by_name(job_info) ==
    LET paths == (IF "StdOut" \in DOMAIN job_info THEN <<job_info["StdOut"]>> ELSE <<>>)
                 \o (IF "StdErr" \in DOMAIN job_info THEN <<job_info["StdErr"]>> ELSE <<>>)
    IN  IF Len(paths) = 2
        THEN IF ~Exists(paths[1]) \/ ~Exists(paths[2])
             THEN [paths |-> <<>>, raised |-> "FileNotFoundError(samefile)"]
             ELSE IF paths[1] = paths[2]
                  THEN [paths |-> <<paths[1]>>, raised |-> ""]
                  ELSE [paths |-> paths, raised |-> ""]
        ELSE [paths |-> paths, raised |-> ""]

get_std_streams(job_info) ==
    LET paths == (IF "StdOut" \in DOMAIN job_info THEN <<job_info["StdOut"]>> ELSE <<>>)
                 \o (IF "StdErr" \in DOMAIN job_info THEN <<job_info["StdErr"]>> ELSE <<>>)
    IN  IF Len(paths) = 2
        THEN IF ~Exists(paths[1]) \/ ~Exists(paths[2])
             THEN [paths |-> <<>>, raised |-> "FileNotFoundError(samefile)"]
             ELSE IF samefile(paths[1], paths[2])
                  THEN [paths |-> <<paths[1]>>, raised |-> ""]
                  ELSE [paths |-> paths, raised |-> ""]
        ELSE [paths |-> paths, raised |-> ""]

\* The same test without the look at the recorded state.
newly_started_any(old_state, new_state) ==
    new_state \notin STATES_NOT_STARTED

\* started = new_state not in STATES_NOT_STARTED
\* if started and states[job_id] in STATES_NOT_STARTED:
newly_started(old_state, new_state) ==
    new_state \notin STATES_NOT_STARTED /\ old_state \in STATES_NOT_STARTED

\* if st_size > 512: fh.seek(-512, os.SEEK_END)
SeekTail(size) == IF size > TAIL_BYTES THEN size - TAIL_BYTES ELSE 0

\* Offset of a freshly opened file object: `tail` for the jobs found running
\* at the first query, otherwise the start of the file.
FirstOffset(size, tail) == IF tail THEN SeekTail(size) ELSE 0

\* for path in paths: open_files[job_id].append(open(path, 'rb'))
RECURSIVE open_each(_, _, _, _)
open_each(m, j, paths, tail) ==
    IF paths = <<>> THEN [m |-> m, raised |-> ""]
    ELSE IF ~Exists(Head(paths)) THEN [m |-> m, raised |-> "FileNotFoundError(open)"]
    ELSE LET ino  == Inode(Head(paths))
             pos  == FirstOffset(Size(ino), tail)
             h    == Len(m.handles) + 1
             rec  == [job |-> j, path |-> Head(paths), ino |-> ino, tail |-> tail,
                      gen |-> IF tail THEN 0 ELSE LogCount(m.log, "started", j),
                      size0 |-> Size(ino), start |-> pos, closes |-> 0]
             m1   == [m EXCEPT !.handles = Append(@, rec),
                               !.open_files = AppendFh(@, j, [h |-> h, pos |-> pos])]
         IN  open_each(m1, j, Tail(paths), tail)

\* End of text.rstrip('\n') for the decoded bytes [lo, hi).
RECURSIVE rstrip(_, _, _)
rstrip(ino, lo, hi) ==
    IF hi > lo /\ Decode(ByteAt(ino, hi - 1)) = NL THEN rstrip(ino, lo, hi - 1) ELSE hi

\* b = fh.read(); if b: print(b.decode(...).rstrip('\n')); fh.close()
drain(m, j, fh) ==
    LET ino  == m.handles[fh.h].ino
        size == Size(ino)
        e    == rstrip(ino, fh.pos, size)
        m1   == IF size > fh.pos /\ e > fh.pos
                THEN msg(m, Ev("out", j, fh.h, fh.pos, e, "", "")) ELSE m
        m2   == IF size > fh.pos THEN msg(m1, Ev("nl", j, fh.h, 0, 0, "", "")) ELSE m1
    IN  [m2 EXCEPT !.handles[fh.h].closes = @ + 1]

RECURSIVE drain_all(_, _, _)
drain_all(m, j, fhs) ==
    IF fhs = <<>> THEN m ELSE drain_all(drain(m, j, Head(fhs)), j, Tail(fhs))

\* The same with the notice written before the files are drained.
finished_notice_first(m, jid, final_state) ==
    LET fhs == Get(m.open_files, jid)
        m1  == [m EXCEPT !.open_files = Pop(@, jid)]
    IN  drain_all(msg(m1, Note("finished", jid, final_state, fmt_state(final_state))),
                  jid, fhs)

finished(m, jid, final_state) ==
    LET fhs == Get(m.open_files, jid)
        m1  == [m EXCEPT !.open_files = Pop(@, jid)]
    IN  msg(drain_all(m1, jid, fhs),
            Note("finished", jid, final_state, fmt_state(final_state)))

\* for line in f: print(line.decode('utf-8', 'replace'), end='')
read_lines(m, j, fh) ==
    LET ino == m.handles[fh.h].ino
    IN  IF Size(ino) > fh.pos
        THEN msg(m, Ev("out", j, fh.h, fh.pos, Size(ino), "", "")) ELSE m

RECURSIVE sweep_fhs(_, _, _)
sweep_fhs(m, j, fhs) ==
    IF fhs = <<>> THEN m ELSE sweep_fhs(read_lines(m, j, Head(fhs)), j, Tail(fhs))

RECURSIVE sweep_from(_, _)
sweep_from(m, k) ==
    IF k > Len(m.open_files) THEN m
    ELSE sweep_from(sweep_fhs(m, m.open_files[k].job, m.open_files[k].fhs), k + 1)

\* Every file object of the dict left at end of file.
AtEof(of, hs) ==
    [k \in 1..Len(of) |->
        [job |-> of[k].job,
         fhs |-> [n \in 1..Len(of[k].fhs) |->
                    [h |-> of[k].fhs[n].h, pos |-> Size(hs[of[k].fhs[n].h].ino)]]]]

\* for files in open_files.values(): for f in files: for line in f: print(...)
sweep(m) ==
    LET m1 == sweep_from(m, 1)
    IN  [m1 EXCEPT !.open_files = AtEof(m.open_files, m.handles)]

\* [j for (j, s) in states.items() if s not in STATES_FINISHED]
unfinished(st) ==
    LET it == SelectSeq(Items(st), LAMBDA e : e[2] \notin STATES_FINISHED)
    IN  [k \in 1..Len(it) |-> it[k][1]]

\* The same test taking COMPLETED for the only terminal state.
all_completed(st) == \A j \in DOMAIN st : st[j] = "COMPLETED"

\* all(st in STATES_FINISHED for st in states.values())
all_finished(st) == \A j \in DOMAIN st : st[j] \in STATES_FINISHED

\* my_last_job(): the lines of `squeue --me --sort=-V`, most recent job first
\* (job ids grow with submission time).
my_jobs ==
    LET known == {j \in Jobs : slurm[j] # "GONE"}
        RECURSIVE desc(_)
        desc(S) == IF S = {} THEN <<>>
                   ELSE LET hi == CHOOSE x \in S : \A y \in S : y <= x
                        IN  <<hi>> \o desc(S \ {hi})
    IN  desc(known)

\* ------------------------------------------------------------------ state
Pack == [open_files |-> open_files, handles |-> handles, log |-> log,
         spinner_shown |-> spinner_shown]

Commit(m) ==
    /\ open_files' = m.open_files
    /\ handles' = m.handles
    /\ log' = m.log
    /\ spinner_shown' = m.spinner_shown

\* The same with the exception swallowed and the run going on.
Swallowed(m, e) ==
    /\ Commit(m)
    /\ err' = e
    /\ UNCHANGED <<pc, exit_code>>

\* An exception main() does not catch: traceback on stderr, exit status 1.
Uncaught(m, e) ==
    /\ Commit(msg(m, Note("traceback", 0, e, "")))
    /\ pc' = "exit"
    /\ exit_code' = 1
    /\ err' = e

\* The same without the call of clear_spinner().
CaughtNoClear(m, e) ==
    /\ Commit(msg(m, Note("error", 0, e, "")))
    /\ pc' = "exit"
    /\ exit_code' = 1
    /\ err' = e

\* except (KeyboardInterrupt, UsageError) as e: clear_spinner(); print(e); return 1
Caught(m, e) ==
    /\ Commit(msg(clear_spinner(m), Note("error", 0, e, "")))
    /\ pc' = "exit"
    /\ exit_code' = 1
    /\ err' = e

Bump(n) == IF n < CountCap THEN n + 1 ELSE n

\* The reports of one status query added to the history.
Report(sn, d) ==
    [j \in Jobs |->
        IF j \in DOMAIN d /\ (sn[j] = <<>> \/ sn[j][Len(sn[j])] # d[j])
        THEN Append(sn[j], d[j]) ELSE sn[j]]

Init ==
    /\ slurm = [j \in Jobs |-> "PENDING"]
    /\ requeues = 0
    /\ argv \in Argvs
    /\ info \in {f \in [Jobs -> UNION {InfoConfigs(j) : j \in Jobs}] :
                    \A j \in Jobs : f[j] \in JobConfigs(argv, j)}
    /\ files = [ino \in Inodes |-> [exists |-> FALSE, bulk |-> 0, data |-> <<>>]]
    /\ pc = "main"
    /\ job_ids = <<>>
    /\ states = <<>>
    /\ open_files = <<>>
    /\ i = 0
    /\ todo = <<>>
    /\ spinner_shown = FALSE
    /\ exit_code = -1
    /\ err = ""
    /\ tasks = <<>>
    /\ tail_cancels = <<>>
    /\ handles = <<>>
    /\ log = <<>>
    /\ squeue_calls = 0
    /\ empty_query = FALSE
    /\ seen = [j \in Jobs |-> <<>>]

\* ------------------------------------------------------- environment steps
\* The environment is followed for as long as the program runs, for the jobs
\* the program can come to follow: those named on the command line, or the
\* most recent one the controller knows.
Running == pc # "exit"
Followed ==
    IF argv # <<>> THEN Range(argv)
    ELSE IF job_ids # <<>> THEN Range(job_ids)
    ELSE IF my_jobs # <<>> THEN {my_jobs[1]}
    ELSE {}
Acts(j) == Running /\ j \in Followed

\* The job is launched; slurmstepd creates its log files.
SlurmStart(j) ==
    /\ Acts(j)
    /\ slurm[j] = "PENDING"
    /\ slurm' = [slurm EXCEPT ![j] = "RUNNING"]
    /\ files' = [ino \in Inodes |->
                    IF ino \in LogsOf(j) THEN [files[ino] EXCEPT !.exists = TRUE]
                    ELSE files[ino]]
    /\ UNCHANGED <<requeues, info, prog_vars, hist_vars>>

SlurmEnd(j) ==
    /\ Acts(j)
    /\ slurm[j] = "RUNNING"
    /\ slurm' = [slurm EXCEPT ![j] = "COMPLETED"]
    /\ UNCHANGED <<requeues, info, files, prog_vars, hist_vars>>

\* scancel of a job that never ran.
SlurmCancel(j) ==
    /\ Acts(j)
    /\ slurm[j] = "PENDING"
    /\ slurm' = [slurm EXCEPT ![j] = "CANCELLED"]
    /\ UNCHANGED <<requeues, info, files, prog_vars, hist_vars>>

\* scontrol requeue, or a preemption that requeues.
SlurmRequeue(j) ==
    /\ Acts(j)
    /\ slurm[j] = "RUNNING"
    /\ EnvEvents < MaxEnvEvents
    /\ slurm' = [slurm EXCEPT ![j] = "PENDING"]
    /\ requeues' = requeues + 1
    /\ UNCHANGED <<info, files, prog_vars, hist_vars>>

\* The controller forgets an ended job (MinJobAge).
SlurmPurge(j) ==
    /\ Acts(j)
    /\ slurm[j] \in STATES_FINISHED
    /\ EnvEvents < MaxEnvEvents
    /\ slurm' = [slurm EXCEPT ![j] = "GONE"]
    /\ UNCHANGED <<requeues, info, files, prog_vars, hist_vars>>

\* The job writes BulkSize bytes at once into its still empty log.
WriteBulk(ino) ==
    /\ Acts(ino[1])
    /\ slurm[ino[1]] = "RUNNING"
    /\ files[ino].exists
    /\ Size(ino) = 0
    /\ EnvEvents < MaxEnvEvents
    /\ files' = [files EXCEPT ![ino].bulk = BulkSize]
    /\ UNCHANGED <<slurm, requeues, info, prog_vars, hist_vars>>

Write(ino, b) ==
    /\ Acts(ino[1])
    /\ slurm[ino[1]] = "RUNNING"
    /\ files[ino].exists
    /\ EnvEvents < MaxEnvEvents
    /\ files' = [files EXCEPT ![ino].data = Append(@, b)]
    /\ UNCHANGED <<slurm, requeues, info, prog_vars, hist_vars>>

\* ----------------------------------------------------------- program steps
\* After the last item of new_states: lines 91-94 of sfollow(), and main()'s
\* return when the loop is left.
EndIteration(st) ==
    IF all_finished(st)
    THEN /\ pc' = "exit"
         /\ exit_code' = 0
         /\ UNCHANGED <<i, err>>
    ELSE /\ pc' = "sweep"
         /\ i' = (i + 1) % POLL_EVERY
         /\ UNCHANGED <<exit_code, err>>

\* main() up to the call of sfollow().
Main ==
    /\ pc = "main"
    /\ \E ok \in BOOLEAN :
         IF argv # <<>>
         THEN /\ ok
              /\ job_ids' = argv
              /\ pc' = "query0"
              /\ UNCHANGED <<open_files, handles, log, spinner_shown, exit_code, err>>
         ELSE IF ~ok
         THEN Uncaught(Pack, "CalledProcessError") /\ UNCHANGED job_ids
         ELSE IF my_jobs = <<>>
         THEN Caught(Pack, "UsageError") /\ UNCHANGED job_ids
         ELSE /\ job_ids' = <<my_jobs[1]>>
              /\ Commit(msg(Pack, Note("following", my_jobs[1], "", "")))
              /\ pc' = "query0"
              /\ UNCHANGED <<exit_code, err>>
    /\ UNCHANGED <<env_vars, argv, states, i, todo, squeue_calls, empty_query, seen,
                   task_vars>>

\* states = job_states(job_ids)
InitialQuery ==
    /\ pc = "query0"
    /\ squeue_calls' = Bump(squeue_calls)
    /\ empty_query' = (empty_query \/ job_ids = <<>>)
    /\ \E ok \in BOOLEAN :
         IF squeue_raises(job_ids, ok)
         THEN Uncaught(Pack, "CalledProcessError") /\ UNCHANGED <<states, todo, seen>>
         ELSE /\ states' = job_states(job_ids)
              /\ seen' = Report(seen, states')
              /\ todo' = Items(states')
              /\ pc' = IF todo' = <<>> THEN "sweep" ELSE "scan"
              /\ UNCHANGED <<open_files, handles, log, spinner_shown, exit_code, err>>
    /\ UNCHANGED <<env_vars, argv, job_ids, i, task_vars>>

\* One pass of `for job_id, state in states.items()` before the loop.
ScanJob ==
    /\ pc = "scan"
    /\ todo # <<>>
    /\ \E ok \in BOOLEAN :
         LET job_id == Head(todo)[1]
             state  == Head(todo)[2]
             tailed == state \notin STATES_NOT_STARTED
             ps     == get_std_streams(get_job_info(job_id))
             o      == open_each(Pack, job_id, ps.paths, TRUE)
             m1     == IF tailed THEN o.m ELSE Pack
             m2     == IF state \in STATES_FINISHED
                       THEN finished(m1, job_id, state) ELSE m1
         IN  IF tailed /\ ~ok
             THEN Uncaught(Pack, "CalledProcessError") /\ UNCHANGED todo
             ELSE IF tailed /\ ps.raised # ""
             THEN Uncaught(Pack, ps.raised) /\ UNCHANGED todo
             ELSE IF tailed /\ o.raised # ""
             THEN Uncaught(o.m, o.raised) /\ UNCHANGED todo
             ELSE /\ tailed \/ ok
                  /\ Commit(m2)
                  /\ todo' = Tail(todo)
                  /\ pc' = IF todo' = <<>> THEN "sweep" ELSE "scan"
                  /\ UNCHANGED <<exit_code, err>>
    /\ UNCHANGED <<env_vars, argv, job_ids, states, i, squeue_calls, empty_query,
                   seen, task_vars>>

\* The read sweep that opens an iteration of the loop.
\* When no status query is due (i % 4 != 0) new_states is empty and the
\* iteration ends here.
Sweep ==
    /\ pc = "sweep"
    /\ Commit(sweep(Pack))
    /\ IF i % POLL_EVERY = 0
       THEN pc' = "poll" /\ UNCHANGED <<i, exit_code, err>>
       ELSE EndIteration(states)
    /\ UNCHANGED <<env_vars, argv, job_ids, states, todo, squeue_calls, empty_query,
                   seen, task_vars>>

\* The status query of an iteration with i % 4 == 0: spinner, then
\* new_states = job_states(unfinished).
Poll ==
    /\ pc = "poll"
    /\ \E ok \in BOOLEAN :
         LET m1 == IF open_files = <<>> THEN spinner_msg(Pack) ELSE Pack
             new_states == job_states(unfinished(states))
         IN  /\ squeue_calls' = Bump(squeue_calls)
             /\ empty_query' = (empty_query \/ unfinished(states) = <<>>)
             /\ IF squeue_raises(unfinished(states), ok)
                THEN Uncaught(m1, "CalledProcessError") /\ UNCHANGED <<todo, i, seen>>
                ELSE /\ Commit(m1)
                     /\ seen' = Report(seen, new_states)
                     /\ todo' = Items(new_states)
                     /\ IF todo' = <<>>
                        THEN EndIteration(states)
                        ELSE pc' = "proc" /\ UNCHANGED <<i, exit_code, err>>
    /\ UNCHANGED <<env_vars, argv, job_ids, states, task_vars>>

\* One pass of `for job_id, new_state in new_states.items()`.
ProcJob ==
    /\ pc = "proc"
    /\ todo # <<>>
    /\ \E ok \in BOOLEAN :
         LET job_id    == Head(todo)[1]
             new_state == Head(todo)[2]
             starting  == newly_started(states[job_id], new_state)
             job_info  == get_job_info(job_id)
             name      == IF "JobName" \in DOMAIN job_info
                          THEN job_info["JobName"] ELSE ""
             m1        == msg(clear_spinner(Pack), Note("started", job_id, name, ""))
             ps        == get_std_streams(job_info)
             o         == open_each(m1, job_id, ps.paths, FALSE)
             m2        == IF starting THEN o.m ELSE Pack
             m3        == IF new_state \in STATES_FINISHED
                          THEN finished(m2, job_id, new_state) ELSE m2
             st        == [states EXCEPT ![job_id] = new_state]
         IN  IF starting /\ ~ok
             THEN Uncaught(Pack, "CalledProcessError") /\ UNCHANGED <<states, todo, i>>
             ELSE IF starting /\ ps.raised # ""
             THEN Uncaught(m1, ps.raised) /\ UNCHANGED <<states, todo, i>>
             ELSE IF starting /\ o.raised # ""
             THEN Uncaught(o.m, o.raised) /\ UNCHANGED <<states, todo, i>>
             ELSE /\ starting \/ ok
                  /\ Commit(m3)
                  /\ states' = st
                  /\ todo' = Tail(todo)
                  /\ IF todo' = <<>>
                     THEN EndIteration(st)
                     ELSE pc' = "proc" /\ UNCHANGED <<i, exit_code, err>>
    /\ UNCHANGED <<env_vars, argv, job_ids, squeue_calls, empty_query, seen,
                   task_vars>>

\* Ctrl-C while main() runs.
Interrupt ==
    /\ pc # "exit"
    /\ Caught(Pack, "KeyboardInterrupt")
    /\ UNCHANGED <<env_vars, argv, job_ids, states, i, todo, squeue_calls,
                   empty_query, seen, task_vars>>

Next ==
    \/ \E j \in Jobs : SlurmStart(j)
    \/ \E j \in Jobs : SlurmEnd(j)
    \/ \E j \in Jobs : SlurmCancel(j)
    \/ \E j \in Jobs : SlurmRequeue(j)
    \/ \E j \in Jobs : SlurmPurge(j)
    \/ \E ino \in Inodes : WriteBulk(ino)
    \/ \E ino \in Inodes, b \in Bytes : Write(ino, b)
    \/ Main
    \/ InitialQuery
    \/ ScanJob
    \/ Sweep
    \/ Poll
    \/ ProcJob
    \/ Interrupt

Spec == Init /\ [][Next]_vars

\* For termination: the controller and the program, without the writes into
\* the log files (their content plays no part in the control flow) and without
\* Ctrl-C.  The program is one thread that keeps running: each of its steps
\* that is possible is eventually taken.  Nothing is assumed of the
\* environment.
LiveNext ==
    \/ \E j \in Jobs : SlurmStart(j)
    \/ \E j \in Jobs : SlurmEnd(j)
    \/ \E j \in Jobs : SlurmCancel(j)
    \/ \E j \in Jobs : SlurmRequeue(j)
    \/ \E j \in Jobs : SlurmPurge(j)
    \/ Main
    \/ InitialQuery
    \/ ScanJob
    \/ Sweep
    \/ Poll
    \/ ProcJob

LiveSpec ==
    /\ Init
    /\ [][LiveNext]_vars
    /\ WF_vars(Main)
    /\ WF_vars(InitialQuery)
    /\ WF_vars(ScanJob)
    /\ WF_vars(Sweep)
    /\ WF_vars(Poll)
    /\ WF_vars(ProcJob)

\* --------------------------------------- src/sfollow.py, the trio script
\* The values passed as tail_log's newly_started: a bool, or a job id (a
\* non-empty string of digits, from the command line or from squeue).
PyBool(b) == [type |-> "bool", val |-> IF b THEN 1 ELSE 0]
PyJobId(j) == [type |-> "str", val |-> j]
\* bool(v): a non-empty string is true
truth(v) == IF v.type = "bool" THEN v.val = 1 ELSE TRUE

\* A tail_log task handed to the nursery, not yet run.
Task(path, job, flag) ==
    [path |-> path, job |-> job, newly_started |-> flag,
     at |-> "new", h |-> 0, pos |-> 0]

\* if not newly_started and os.stat(fh.fileno()).st_size > 512:
\*     fh.seek(-512, os.SEEK_END)
tail_offset(size, flag) ==
    IF ~truth(flag) /\ size > TAIL_BYTES THEN size - TAIL_BYTES ELSE 0

\* End of the line that begins at offset k, within the bytes [k, size).
RECURSIVE LineEnd(_, _, _)
LineEnd(ino, k, size) ==
    IF k >= size THEN size
    ELSE IF k < files[ino].bulk THEN LineEnd(ino, files[ino].bulk, size)
    ELSE IF ByteAt(ino, k) = NL THEN k + 1
    ELSE LineEnd(ino, k + 1, size)

\* for line in sr: print(line)
RECURSIVE print_lines(_, _, _, _)
print_lines(m, j, h, pos) ==
    LET ino == m.handles[h].ino
        e   == LineEnd(ino, pos, Size(ino))
    IN  IF pos >= Size(ino) THEN m
        ELSE print_lines(msg(msg(m, Ev("out", j, h, pos, e, "", "")),
                             Ev("nl", j, h, 0, 0, "", "")),
                         j, h, e)

\* get_std_streams() of the script prints a line when it drops the second path.
said_same_file(m, j, job_info, ps) ==
    IF {"StdOut", "StdErr"} \subseteq DOMAIN job_info /\ Len(ps.paths) = 1
    THEN msg(m, Note("samefile", j, "", "")) ELSE m

\* tail_cancels[job_id].append(nursery.start(tail_log, path, True)) for each
\* path: start() is not awaited, so what is kept is a coroutine object and no
\* task runs.
RECURSIVE keep_started(_, _, _)
keep_started(tc, j, paths) ==
    IF paths = <<>> THEN tc
    ELSE keep_started(AppendFh(tc, j, "coroutine"), j, Tail(paths))

\* for cscope in tail_cancels.pop(job_id): cscope.cancel()
pop_cancel(tc, j) ==
    IF ~HasKey(tc, j) THEN "KeyError"
    ELSE IF \E k \in 1..Len(Get(tc, j)) : Get(tc, j)[k] = "coroutine"
    THEN "AttributeError"
    ELSE ""

\* An exception leaves the nursery: the other tasks are cancelled (their files
\* closed without a further read), trio.run() raises.
Raise(m, e) ==
    /\ Uncaught(m, e)
    /\ tasks' = [t \in 1..Len(tasks) |-> [tasks[t] EXCEPT !.at = "ended"]]

\* main() up to trio.run(sfollow, job_ids).
ScriptMain ==
    /\ pc = "main"
    /\ \E ok \in BOOLEAN :
         IF argv # <<>>
         THEN /\ ok
              /\ job_ids' = argv
              /\ pc' = "query0"
              /\ UNCHANGED <<open_files, handles, log, spinner_shown, exit_code, err>>
         ELSE IF ~ok
         THEN Uncaught(Pack, "CalledProcessError") /\ UNCHANGED job_ids
         ELSE IF my_jobs = <<>>
         THEN Uncaught(Pack, "Exception") /\ UNCHANGED job_ids
         ELSE /\ job_ids' = <<my_jobs[1]>>
              /\ Commit(msg(Pack, Note("following", my_jobs[1], "", "")))
              /\ pc' = "query0"
              /\ UNCHANGED <<exit_code, err>>
    /\ UNCHANGED <<env_vars, argv, states, i, todo, squeue_calls, empty_query, seen,
                   task_vars>>

\* watch_jobs(): states = job_states(job_ids)
WatchQuery ==
    /\ pc = "query0"
    /\ squeue_calls' = Bump(squeue_calls)
    /\ empty_query' = (empty_query \/ job_ids = <<>>)
    /\ \E ok \in BOOLEAN :
         IF squeue_raises(job_ids, ok)
         THEN Uncaught(Pack, "CalledProcessError") /\ UNCHANGED <<states, todo, seen>>
         ELSE /\ states' = job_states(job_ids)
              /\ seen' = Report(seen, states')
              /\ todo' = Items(states')
              /\ pc' = IF todo' = <<>> THEN "top" ELSE "scan"
              /\ UNCHANGED <<open_files, handles, log, spinner_shown, exit_code, err>>
    /\ UNCHANGED <<env_vars, argv, job_ids, i, task_vars>>

\* One pass of `for job_id, state in states.items()` before the loop:
\* nursery.start_soon(tail_log, path, job_id) for each path.
WatchScan ==
    /\ pc = "scan"
    /\ todo # <<>>
    /\ \E ok \in BOOLEAN :
         LET job_id   == Head(todo)[1]
             state    == Head(todo)[2]
             tailed   == state \notin STATES_NOT_STARTED
             job_info == get_job_info(job_id)
             ps       == get_std_streams(job_info)
             new      == [k \in 1..Len(ps.paths) |->
                             Task(ps.paths[k], job_id, PyJobId(job_id))]
         IN  IF tailed /\ ~ok
             THEN Raise(Pack, "CalledProcessError") /\ UNCHANGED todo
             ELSE IF tailed /\ ps.raised # ""
             THEN Raise(Pack, ps.raised) /\ UNCHANGED todo
             ELSE /\ tailed \/ ok
                  /\ Commit(IF tailed THEN said_same_file(Pack, job_id, job_info, ps)
                            ELSE Pack)
                  /\ tasks' = IF tailed THEN tasks \o new ELSE tasks
                  /\ todo' = Tail(todo)
                  /\ pc' = IF todo' = <<>> THEN "top" ELSE "scan"
                  /\ UNCHANGED <<exit_code, err>>
    /\ UNCHANGED <<env_vars, argv, job_ids, states, i, squeue_calls, empty_query,
                   seen, tail_cancels>>

\* The top of `while True` down to job_states(job_ids_unfinished).  When the
\* loop is left watch_jobs() returns and the nursery waits for the tail tasks.
WatchPoll ==
    /\ pc = "top"
    /\ IF unfinished(states) = <<>>
       THEN /\ IF \A t \in 1..Len(tasks) : tasks[t].at = "ended"
               THEN pc' = "exit" /\ exit_code' = 0
               ELSE pc' = "join" /\ UNCHANGED exit_code
            /\ UNCHANGED <<open_files, handles, log, spinner_shown, err, todo,
                           squeue_calls, empty_query, seen, tasks>>
       ELSE \E ok \in BOOLEAN :
              LET ids        == unfinished(states)
                  waiting    == \A j \in DOMAIN states : states[j] \in STATES_NOT_STARTED
                  m1         == IF waiting THEN msg(Pack, Note("spin", 0, "", ""))
                                ELSE Pack
                  new_states == job_states(ids)
              IN  /\ squeue_calls' = Bump(squeue_calls)
                  /\ UNCHANGED empty_query
                  /\ IF squeue_raises(ids, ok)
                     THEN Raise(m1, "CalledProcessError") /\ UNCHANGED <<todo, seen>>
                     ELSE /\ Commit(m1)
                          /\ seen' = Report(seen, new_states)
                          /\ todo' = Items(new_states)
                          /\ pc' = IF todo' = <<>> THEN "sleep" ELSE "proc"
                          /\ UNCHANGED <<exit_code, err, tasks>>
    /\ UNCHANGED <<env_vars, argv, job_ids, states, i, tail_cancels>>

\* One pass of `for job_id, new_state in job_states(...).items()`, down to
\* the checkpoint of a job that finished or to the end of the pass.
WatchProc ==
    /\ pc = "proc"
    /\ todo # <<>>
    /\ \E ok \in BOOLEAN :
         LET job_id    == Head(todo)[1]
             new_state == Head(todo)[2]
             starting  == newly_started(states[job_id], new_state)
             finishing == new_state \in STATES_FINISHED
                          /\ states[job_id] \notin STATES_FINISHED
             job_info  == get_job_info(job_id)
             name      == IF "JobName" \in DOMAIN job_info
                          THEN job_info["JobName"] ELSE ""
             m1        == msg(Pack, Note("started", job_id, name, ""))
             ps        == get_std_streams(job_info)
             m2        == IF starting THEN said_same_file(m1, job_id, job_info, ps)
                          ELSE Pack
             tc        == IF starting THEN keep_started(tail_cancels, job_id, ps.paths)
                          ELSE tail_cancels
         IN  IF starting /\ ~ok
             THEN Raise(Pack, "CalledProcessError")
                  /\ UNCHANGED <<states, todo, tail_cancels>>
             ELSE IF starting /\ ps.raised # ""
             THEN Raise(m1, ps.raised) /\ UNCHANGED <<states, todo, tail_cancels>>
             ELSE IF finishing /\ pop_cancel(tc, job_id) # ""
             THEN /\ starting \/ ok
                  /\ Raise(m2, pop_cancel(tc, job_id))
                  /\ tail_cancels' = Pop(tc, job_id)
                  /\ UNCHANGED <<states, todo>>
             ELSE IF finishing
             THEN /\ starting \/ ok
                  /\ Commit(m2)
                  /\ tail_cancels' = Pop(tc, job_id)
                  /\ pc' = "checkpoint"
                  /\ UNCHANGED <<states, todo, tasks, exit_code, err>>
             ELSE /\ starting \/ ok
                  /\ Commit(m2)
                  /\ tail_cancels' = tc
                  /\ states' = [states EXCEPT ![job_id] = new_state]
                  /\ todo' = Tail(todo)
                  /\ pc' = IF todo' = <<>> THEN "sleep" ELSE "proc"
                  /\ UNCHANGED <<tasks, exit_code, err>>
    /\ UNCHANGED <<env_vars, argv, job_ids, i, squeue_calls, empty_query, seen>>

\* watch_jobs() runs again after `await trio.sleep(2)`, or after the
\* checkpoint `await trio.sleep(0)`, where it writes the "finished" notice and
\* records the state.  The tasks handed to the nursery have run by then.
WatchWake ==
    /\ pc \in {"sleep", "checkpoint"}
    /\ \A t \in 1..Len(tasks) : tasks[t].at # "new"
    /\ IF pc = "sleep"
       THEN /\ pc' = "top"
            /\ UNCHANGED <<states, todo, open_files, handles, log, spinner_shown>>
       ELSE LET job_id    == Head(todo)[1]
                new_state == Head(todo)[2]
            IN  /\ Commit(msg(Pack, Note("finished", job_id, new_state,
                                         fmt_state(new_state))))
                /\ states' = [states EXCEPT ![job_id] = new_state]
                /\ todo' = Tail(todo)
                /\ pc' = IF todo' = <<>> THEN "sleep" ELSE "proc"
    /\ UNCHANGED <<env_vars, argv, job_ids, i, exit_code, err, squeue_calls,
                   empty_query, seen, task_vars>>

\* A tail_log task runs, from its start or from `await trio.sleep(0.5)`, to
\* its next sleep: this happens while watch_jobs() sleeps or has returned.
\* The cancel scope of the task is handed to task_status.started(), which
\* start_soon() ignores, so nothing can cancel it: the read sweep after the
\* scope (lines 110-114) is never run, and the task ends only when an
\* exception tears the nursery down.
TailLog(t) ==
    /\ pc \in {"sleep", "checkpoint", "join"}
    /\ tasks[t].at \in {"new", "loop"}
    /\ LET task    == tasks[t]
           opening == task.at = "new"
           ino     == Inode(task.path)
           h       == IF opening THEN Len(handles) + 1 ELSE task.h
           pos     == IF opening THEN tail_offset(Size(ino), task.newly_started)
                      ELSE task.pos
           rec     == [job |-> task.job, path |-> task.path, ino |-> ino,
                       tail |-> task.newly_started # PyBool(TRUE), gen |-> 0,
                       size0 |-> Size(ino), start |-> pos, closes |-> 0]
           m1      == IF opening THEN [Pack EXCEPT !.handles = Append(@, rec)]
                      ELSE Pack
       IN  IF opening /\ ~Exists(task.path)
           THEN Raise(Pack, "FileNotFoundError(open)")
           ELSE /\ Commit(print_lines(m1, task.job, h, pos))
                /\ tasks' = [tasks EXCEPT ![t] =
                                [@ EXCEPT !.at = "loop", !.h = h, !.pos = Size(ino)]]
                /\ UNCHANGED <<pc, exit_code, err>>
    /\ UNCHANGED <<env_vars, argv, job_ids, states, i, todo, squeue_calls,
                   empty_query, seen, tail_cancels>>

ScriptNext ==
    \/ \E j \in Jobs : SlurmStart(j)
    \/ \E j \in Jobs : SlurmEnd(j)
    \/ \E j \in Jobs : SlurmCancel(j)
    \/ \E j \in Jobs : SlurmRequeue(j)
    \/ \E j \in Jobs : SlurmPurge(j)
    \/ \E ino \in Inodes : WriteBulk(ino)
    \/ \E ino \in Inodes, b \in Bytes : Write(ino, b)
    \/ ScriptMain
    \/ WatchQuery
    \/ WatchScan
    \/ WatchPoll
    \/ WatchProc
    \/ WatchWake
    \/ \E t \in 1..Len(tasks) : TailLog(t)

ScriptSpec == Init /\ [][ScriptNext]_vars

\* ------------------------------------------------------ reading the history
HandleIds == 1..Len(handles)
LogIdx == 1..Len(log)
NoticeIdx(k, j) == {n \in LogIdx : log[n].k = k /\ log[n].j = j}
Count(k, j) == LogCount(log, k, j)
OutIdx(j) == {n \in LogIdx : log[n].k \in {"out", "nl"} /\ log[n].j = j}
HandlesOf(j) == {h \in HandleIds : handles[h].job = j}

\* The text written to stdout through handle h by the first n write calls.
RECURSIVE PrintedUpTo(_, _)
PrintedUpTo(h, n) ==
    IF n = 0 THEN <<>>
    ELSE PrintedUpTo(h, n - 1) \o
         (IF log[n].h = h /\ log[n].k = "out"
          THEN Text(handles[h].ino, log[n].lo, log[n].hi)
          ELSE IF log[n].h = h /\ log[n].k = "nl" THEN <<NL>>
          ELSE <<>>)
Printed(h) == PrintedUpTo(h, Len(log))

IsPrefix(a, b) == Len(a) <= Len(b) /\ \A k \in 1..Len(a) : a[k] = b[k]

\* The job has ended for the controller: it writes no more.
Ended(j) == slurm[j] \in STATES_FINISHED \/ slurm[j] = "GONE"

\* ------------------------------------------------------------------ claims

\* C1: for every log file tailed for a job, every byte the job appended to it
\* before the status query that first reports the job terminal is printed
\* before the job's "finished" notice: the text printed through a handle that
\* finished() has drained begins with the whole text of the file from the
\* handle's first offset on, and all of it precedes the notice.
C1_Draining ==
    \A h \in HandleIds :
        handles[h].closes > 0 =>
            /\ IsPrefix(Text(handles[h].ino, handles[h].start, Size(handles[h].ino)),
                        Printed(h))
            /\ \A n \in LogIdx :
                   log[n].h = h =>
                       \E n2 \in NoticeIdx("finished", handles[h].job) : n < n2

\* The job is an item of the dict being iterated that is still to process.
InTodo(j) == \E k \in 1..Len(todo) : todo[k][1] = j
Recorded(j) == j \in DOMAIN states
RecordedFinished(j) == Recorded(j) /\ states[j] \in STATES_FINISHED

C2_NoticeCounts ==
    \A j \in Jobs :
        /\ Count("finished", j) <= 1
        /\ Count("finished", j) = 1 <=> (RecordedFinished(j) /\ ~InTodo(j))

C2_NoticeSteps ==
    \A j \in Jobs :
        LET ds == Count("started", j)' - Count("started", j)
            df == Count("finished", j)' - Count("finished", j)
        IN  /\ ds \in {0, 1}
            /\ ds = 1 => /\ Recorded(j)
                         /\ states[j] \in STATES_NOT_STARTED
                         /\ states'[j] \notin STATES_NOT_STARTED \/ pc' = "exit"
            /\ ( /\ Recorded(j)
                 /\ states[j] \in STATES_NOT_STARTED
                 /\ states'[j] \notin STATES_NOT_STARTED ) => ds = 1
            /\ ( /\ pc = "proc"
                 /\ todo # <<>>
                 /\ Recorded(j)
                 /\ Head(todo) = <<j, states[j]>> ) => (ds = 0 /\ df = 0)

Last(sq) == sq[Len(sq)]
\* The first query has been answered, and the latest report of every job it
\* answered for is a terminal state.
AllReportedTerminal ==
    /\ pc \notin {"main", "query0"}
    /\ \A j \in DOMAIN states : seen[j] # <<>> /\ Last(seen[j]) \in STATES_FINISHED

\* C3: once the poller has reported every tracked job terminal, sfollow()
\* leaves its loop: the run ends, and it ends with a normal return (exit
\* status 0, every recorded state terminal) unless an exception ended it.
C3_Returns ==
    AllReportedTerminal ~>
        (pc = "exit" /\ (err = "" => exit_code = 0 /\ all_finished(states)))

\* A run that returned normally after following a job to its end.
C3_Witness ==
    /\ pc = "exit"
    /\ err = ""
    /\ exit_code = 0
    /\ \E j \in DOMAIN states : Len(seen[j]) >= 2 /\ Count("finished", j) = 1

ReturnedNormally == pc = "exit" /\ err = "" /\ exit_code = 0

\* C4: sfollow() returns normally only when every job id it was given has a
\* recorded terminal state and has had its "finished" notice.
C4_AllGivenFinished ==
    ReturnedNormally =>
        \A j \in Range(job_ids) : RecordedFinished(j) /\ Count("finished", j) = 1

\* The first query reported every job given in a terminal state.
AllTerminalAtFirst ==
    /\ pc \notin {"main", "query0"}
    /\ \A j \in Range(job_ids) : seen[j] # <<>> /\ seen[j][1] \in STATES_FINISHED

\* C6: when every job is terminal at the first query, no log file is opened,
\* each job gets one "finished" notice, and sfollow() exits right after the
\* notices: no waiting indicator, no iteration of the loop, no second query.
C6_ExitsAtOnce ==
    AllTerminalAtFirst =>
        /\ handles = <<>>
        /\ \A j \in Range(job_ids) : Count("finished", j) <= 1
        /\ pc \in {"scan", "exit"}
        /\ \A n \in LogIdx : log[n].k # "spin"
        /\ squeue_calls <= 1

\* C7: the status command is never invoked with an empty list of job ids.
C7_NoEmptyQuery == ~empty_query

\* C10: a log file that cannot be opened does not end the run.
C10_OpenFailureNotFatal == ~(pc = "exit" /\ err = "FileNotFoundError(open)")

FirstIdx(S) == CHOOSE n \in S : \A m \in S : n <= m
SpinIdx == {n \in LogIdx : log[n].k = "spin"}

\* A job the first query reported not started.
PendingAtFirst(j) == seen[j] # <<>> /\ seen[j][1] \in STATES_NOT_STARTED
\* PENDING at the first query, later polled RUNNING, later polled COMPLETED.
RanToCompletion(j) ==
    /\ PendingAtFirst(j)
    /\ \E k \in 1..Len(seen[j]) : seen[j][k] = "RUNNING"
    /\ Last(seen[j]) = "COMPLETED"

\* None of the job's output before its first "started" notice or after its
\* "finished" notice.
OutputInside(j) ==
    \A n \in OutIdx(j) :
        /\ \E m \in NoticeIdx("started", j) : m < n
        /\ \A m \in NoticeIdx("finished", j) : n < m

\* "started", then the output, then one green "finished (COMPLETED)".
StartedThenFinished(j) ==
    /\ Count("started", j) >= 1
    /\ Count("finished", j) = 1
    /\ \A m \in NoticeIdx("finished", j) :
           /\ log[m].s = "COMPLETED"
           /\ log[m].c = "green"
           /\ FirstIdx(NoticeIdx("started", j)) < m

\* The waiting indicator was drawn before the job's first "started" notice.
SpinBeforeStarted(j) ==
    \E n \in SpinIdx : n < FirstIdx(NoticeIdx("started", j))

\* C5 as stated: for such a job the waiting indicator, then "started", then
\* the output, then "finished (COMPLETED)", then exit status 0.
C5_Scenario ==
    \A j \in Jobs :
        /\ PendingAtFirst(j) => OutputInside(j)
        /\ (RanToCompletion(j) /\ pc = "exit" /\ err = "") =>
               /\ StartedThenFinished(j)
               /\ SpinBeforeStarted(j)
               /\ exit_code = 0

\* C5, amended: the same order in a run that no exception ends, the waiting
\* indicator being certain only when the job is the only one followed (it is
\* drawn on the ticks on which no log file is open).
C5_Order ==
    \A j \in Jobs :
        /\ PendingAtFirst(j) => OutputInside(j)
        /\ (RanToCompletion(j) /\ pc = "exit" /\ err = "") =>
               /\ StartedThenFinished(j)
               /\ Len(job_ids) = 1 => SpinBeforeStarted(j)
               /\ exit_code = 0

\* The scenario of the specification: one job, pending, started, some output,
\* completed, exit 0.
C5_Witness ==
    \E j \in Jobs :
        /\ RanToCompletion(j)
        /\ ReturnedNormally
        /\ Len(job_ids) = 1
        /\ \E n \in OutIdx(j) : log[n].k = "out"

\* C8: a log file opened for a job that was already running at the first
\* query is first read from size - 512 when its size exceeds 512 and from 0
\* otherwise; a log file opened for a job that starts during the loop is
\* first read from 0 whatever its size.  (A handle with `tail` is one opened
\* for a job the first query reported started; one without it is opened after
\* a "started" notice.)
C8_FirstOffset ==
    \A h \in HandleIds :
        LET r    == handles[h]
            exp  == IF r.tail /\ r.size0 > TAIL_BYTES THEN r.size0 - TAIL_BYTES ELSE 0
            outs == {n \in LogIdx : log[n].h = h /\ log[n].k = "out"}
        IN  /\ r.start = exp
            /\ outs # {} => log[FirstIdx(outs)].lo = exp
            /\ r.tail => (seen[r.job] # <<>> /\ seen[r.job][1] \notin STATES_NOT_STARTED)
            /\ ~r.tail => Count("started", r.job) >= 1

\* StdOut, then StdErr unless it is the file StdOut names.
ExpectedStreams(job_info) ==
    LET has(k) == k \in DOMAIN job_info
    IN  (IF has("StdOut") THEN <<job_info["StdOut"]>> ELSE <<>>)
        \o (IF has("StdErr")
               /\ ~(has("StdOut") /\ Inode(job_info["StdOut"]) = Inode(job_info["StdErr"]))
            THEN <<job_info["StdErr"]>> ELSE <<>>)

\* The paths of the files opened for job j in its g-th round of opens, in
\* the order they were opened.
RECURSIVE BatchFrom(_, _, _)
BatchFrom(j, g, h) ==
    IF h > Len(handles) THEN <<>>
    ELSE (IF handles[h].job = j /\ handles[h].gen = g
          THEN <<handles[h].path>> ELSE <<>>) \o BatchFrom(j, g, h + 1)
BatchPaths(j, g) == BatchFrom(j, g, 1)

OpenFailed == err \in {"FileNotFoundError(open)", "FileNotFoundError(samefile)"}

CommandFails == err = "" /\ err' = "CalledProcessError"

C11_FailureStep ==
    CommandFails =>
        /\ pc' = "exit"
        /\ exit_code' = 1
        /\ \A j \in Jobs :
               /\ LogCount(log', "started", j) = LogCount(log, "started", j)
               /\ LogCount(log', "finished", j) = LogCount(log, "finished", j)

\* Nothing happens after the exit: no query, no notice.
NothingAfterExit == pc = "exit" => UNCHANGED vars

\* C11: when squeue or scontrol fails, the run ends in that step with exit
\* status 1; the step writes no "started" or "finished" notice, and after it
\* no command is run again and nothing more is written.
C11_Fatal == [][C11_FailureStep /\ NothingAfterExit]_vars

\* A status query fails in the loop, after a job was announced as started.
C11_Witness ==
    /\ pc = "exit"
    /\ err = "CalledProcessError"
    /\ exit_code = 1
    /\ squeue_calls >= 2
    /\ \E j \in Jobs : Count("started", j) >= 1

\* The exceptions main() handles.
Handled == {"UsageError", "KeyboardInterrupt"}

\* The step in which main() handles UsageError or KeyboardInterrupt: the
\* spinner line, if one is shown, is cleared, then the message is printed.
C12_HandledStep ==
    (err = "" /\ err' \in Handled) =>
        /\ pc' = "exit"
        /\ exit_code' = 1
        /\ ~spinner_shown'
        /\ log' = (IF spinner_shown THEN Append(log, Note("clear", 0, "", "")) ELSE log)
                  \o <<Note("error", 0, err', "")>>

C12_ExitCodes ==
    pc = "exit" =>
        /\ err = "" => exit_code = 0
        /\ err \in Handled => exit_code = 1 /\ ~spinner_shown
        /\ err = "UsageError" => (argv = <<>> /\ job_ids = <<>>)

StraightToTerminal(j) ==
    /\ Len(seen[j]) = 2
    /\ seen[j][1] \in STATES_NOT_STARTED
    /\ seen[j][2] \in STATES_FINISHED

\* C13: a job whose recorded state goes from not-started to terminal within
\* one poll is never tailed: no log file is opened for it, none of its output
\* is printed, and it gets no notice but the "finished" one.
C13_NeverTailed ==
    \A j \in Jobs :
        StraightToTerminal(j) =>
            /\ HandlesOf(j) = {}
            /\ OutIdx(j) = {}
            /\ Count("started", j) = 0

\* terminal.spinner_shown at the time of the n-th write call: a spinner line
\* was drawn before it and clear_spinner() has not cleared it since.
SpinnerShownAt(n) ==
    \E m \in 1..(n - 1) :
        /\ log[m].k = "spin"
        /\ \A q \in (m + 1)..(n - 1) : log[q].k # "clear"

PersistentKinds == {"started", "finished", "out", "nl"}

\* C14: no "started" notice, "finished" notice or job output is written
\* while a spinner line is shown, and none is shown when sfollow() returns.
C14_SpinnerCleared ==
    /\ \A n \in LogIdx : log[n].k \in PersistentKinds => ~SpinnerShownAt(n)
    /\ ReturnedNormally => ~spinner_shown

\* The step of a state-query tick (the only step of the program at "poll").
QueryTick == pc = "poll" /\ pc' # "poll" /\ err' # "KeyboardInterrupt"

\* The waiting indicator is on the screen after the tick's write calls.
IndicatorDrawn ==
    /\ spinner_shown'
    /\ \E n \in 1..Len(log') :
           /\ log'[n].k = "spin"
           /\ \A q \in (n + 1)..Len(log') : log'[q].k = "traceback"

NoneStarted == \A j \in DOMAIN states : states[j] \in STATES_NOT_STARTED

\* C15: on a state-query tick the waiting indicator is drawn if and only if
\* every recorded state is not-started.
C15_IndicatorIffNoneStarted == [][QueryTick => (IndicatorDrawn <=> NoneStarted)]_vars

\* The open file objects job j owns in the watch set.
Owned(j) == Len(Get(open_files, j))

OneLogFile(j) ==
    /\ {"StdOut", "StdErr"} \subseteq DOMAIN info[j]
    /\ Inode(info[j]["StdOut"]) = Inode(info[j]["StdErr"])

\* C16: a job owns at most two open handles, at most one when StdOut and
\* StdErr are the same file, and none while its recorded state is not-started
\* or finished.
C16_HandlesPerJob ==
    \A j \in Jobs :
        /\ Owned(j) <= 2
        /\ OneLogFile(j) => Owned(j) <= 1
        /\ (Recorded(j) /\ states[j] \in STATES_NOT_STARTED \cup STATES_FINISHED) =>
               Owned(j) = 0

\* One step leaves the recorded state of job j where it is or moves it
\* forward; a job recorded finished is not among those of the next query.
ForwardStep(j) ==
    Recorded(j) =>
        /\ j \in DOMAIN states'
        /\ states[j] \notin STATES_NOT_STARTED => states'[j] \notin STATES_NOT_STARTED
        /\ states[j] \in STATES_FINISHED =>
               /\ states'[j] = states[j]
               /\ pc' = "proc" => \A k \in 1..Len(todo') : todo'[k][1] # j

\* C17: the recorded state of a job only moves forward, not-started ->
\* running -> finished: never back to not-started once recorded running,
\* never changed nor queried again once recorded finished.
C17_Monotonic == [][\A j \in Jobs : ForwardStep(j)]_vars

\* The exceptions of `for cscope in tail_cancels.pop(job_id): cscope.cancel()`.
CancelErrors == {"KeyError", "AttributeError"}

\* Every tail_log task of job j has ended, with its file read to the end.
TailersDone(j) ==
    \A t \in 1..Len(tasks) :
        tasks[t].job = j =>
            /\ tasks[t].at = "ended"
            /\ tasks[t].pos = Size(Inode(tasks[t].path))

\* C18: in the task-based script, when a poll reports a job finished its
\* tailer tasks are cancelled (the cancelling does not fail) and have made
\* their final read sweep by the time the "finished" notice is written.
C18_CancelThenNotice ==
    /\ err \notin CancelErrors
    /\ \A j \in Jobs : Count("finished", j) >= 1 => TailersDone(j)

\* The handles held in the watch set.
InWatchSet ==
    UNION {{open_files[k].fhs[n].h : n \in 1..Len(open_files[k].fhs)} :
              k \in 1..Len(open_files)}

\* C19: a handle is closed at most once, when the job that owns it is
\* finished: from then on it is out of the watch set and nothing is read
\* through it (all it printed precedes the job's "finished" notice); an open
\* one is in the watch set; when sfollow() returns normally the watch set is
\* empty and every handle opened has been closed once.
C19_Closed ==
    /\ \A h \in HandleIds :
           /\ handles[h].closes <= 1
           /\ handles[h].closes = 1 =>
                  /\ h \notin InWatchSet
                  /\ RecordedFinished(handles[h].job)
                  /\ Count("finished", handles[h].job) = 1
                  /\ \A n \in LogIdx :
                         log[n].h = h =>
                             \A f \in NoticeIdx("finished", handles[h].job) : n < f
           /\ (handles[h].closes = 0 /\ err = "") => h \in InWatchSet
    /\ ReturnedNormally =>
           /\ open_files = <<>>
           /\ \A h \in HandleIds : handles[h].closes = 1

\* A normal return after two log files were opened, read and closed.
C19_Witness ==
    /\ ReturnedNormally
    /\ Len(handles) >= 2
    /\ \E n \in LogIdx : log[n].k = "out"

\* The write calls that printed bytes read through handle h.
OutOf(h) == {n \in LogIdx : log[n].k = "out" /\ log[n].h = h}

\* C20: the bytes of a tailed file are printed at most once and in file
\* order, from the handle's first offset on: each read through a handle
\* begins where the one before ended or later; and no file is in the watch
\* set, and so printed, through two handles at once.
C20_PrintedOnce ==
    /\ \A h \in HandleIds :
           /\ \A n \in OutOf(h) : handles[h].start <= log[n].lo /\ log[n].lo < log[n].hi
           /\ \A n1, n2 \in OutOf(h) : n1 < n2 => log[n1].hi <= log[n2].lo
    /\ \A h1, h2 \in InWatchSet :
           h1 # h2 => handles[h1].ino # handles[h2].ino

====
